---------------------------- MODULE Spec2Model ----------------------------
(***************************************************************************)
(* A model of the log-structured key-value store KvStore (src/src/kvs.rs,  *)
(* src/src/utils.rs, src/src/command.rs).                                  *)
(*                                                                         *)
(* Files are sequences of abstract bytes.  An encoded Set record is        *)
(*   "S", key, value bytes ..., "}"       and a Remove record is           *)
(*   "R", key, "}"                                                         *)
(* which keeps what matters of the JSON encoding: records are              *)
(* self-delimiting, of different lengths, and a record cut short or        *)
(* overwritten in part does not decode.  Each abstract byte is one piece   *)
(* that the serializer hands to the writer.                                *)
(*                                                                         *)
(* Sizes are scaled: SIZE_THRESHOLD is 1 MiB in the source and the         *)
(* BufReader/BufWriter capacity is 8 KiB; here a record is 3..5 bytes, the *)
(* buffer holds 4 and the threshold is 4, so that a short record fits the  *)
(* buffer, a long one does not, and a few records exceed the threshold.    *)
(***************************************************************************)
EXTENDS Integers, Sequences, FiniteSets, TLC

VARIABLES
    phase,        \* "closed": no KvStore value exists; "open": one does
    path,         \* the data directory: generation |-> content of <gen>.log
    index,        \* KvStore.index: key |-> CommandPointer
    readers,      \* KvStore.readers: the generations that have a reader
    curr_gen,     \* KvStore.curr_gen
    stale_bytes,  \* KvStore.stale_bytes
    wfile,        \* the name under which the writer's file is linked in the
                  \* directory, 0 when that file has been unlinked
    anon,         \* content of the writer's file once it is unlinked
    wbuf,         \* bytes held in the BufWriter of KvStore.writer
    pos,          \* offset of the open file description shared by the writer
                  \* and the reader of curr_gen (try_clone shares it)
    res,          \* the outcome of the last operation
    shadow,       \* a plain map kept beside the store during a session
    sess,         \* what kind of calls the session has seen
    hist,         \* what is remembered across a shutdown
    ops           \* the number of steps taken

vars == <<phase, path, index, readers, curr_gen, stale_bytes, wfile, anon,
          wbuf, pos, res, shadow, sess, hist, ops>>

(***************************************************************************)
(* Bounds and constants                                                    *)
(***************************************************************************)
MaxOps == 6

SIZE_THRESHOLD == 4

BufCap == 4

Keys == {"k1", "k2"}

ValChars == {"a", "b"}

Values == {<<"a">>, <<"b", "b">>}

(***************************************************************************)
(* Small helpers                                                           *)
(***************************************************************************)
Min(a, b) == IF a <= b THEN a ELSE b

MaxOf(S) == CHOOSE x \in S : \A y \in S : y <= x

CeilDiv(a, b) == (a + b - 1) \div b

\* bytes [s, e) of b, offsets counted from 0
Sub(b, s, e) == SubSeq(b, s + 1, e)

Perms(S) == {f \in [1..Cardinality(S) -> S] : \A i, j \in DOMAIN f : i # j => f[i] # f[j]}

SortedSeq(S) == CHOOSE f \in Perms(S) : \A i, j \in DOMAIN f : i < j => f[i] < f[j]

\* pwrite of data at offset p: never truncates, never moves later bytes
WriteAt(c, p, d) ==
    IF Len(d) = 0 THEN c
    ELSE SubSeq(c, 1, p) \o d \o SubSeq(c, p + Len(d) + 1, Len(c))

(***************************************************************************)
(* command.rs                                                              *)
(***************************************************************************)
CommandPointer(gen, start, end) == [gen |-> gen, start |-> start, len |-> end - start]

Encode(cmd) ==
    IF cmd.op = "set" THEN <<"S", cmd.key>> \o cmd.value \o <<"}">>
    ELSE <<"R", cmd.key, "}">>

RECURSIVE ValEnd(_, _)
\* offset of the first byte at or after p that is not a value byte
ValEnd(b, p) ==
    IF p < Len(b) /\ b[p + 1] \in ValChars THEN ValEnd(b, p + 1) ELSE p

NoVal == <<>>

DErr(used) == [kind |-> "err", key |-> "", value |-> NoVal, end |-> 0, used |-> used]

\* One step of the JSON stream decoder at offset p of b: the record found
\* there and the offset after it, "eof" at a clean end of stream, "err" for a
\* malformed or truncated record.  used: the offset up to which bytes were read.
DecodeAt(b, p) ==
    IF p >= Len(b) THEN [kind |-> "eof", key |-> "", value |-> NoVal, end |-> p, used |-> Len(b)]
    ELSE IF b[p + 1] = "R" THEN
        IF p + 1 >= Len(b) THEN DErr(Len(b))
        ELSE IF b[p + 2] \notin Keys THEN DErr(p + 2)
        ELSE IF p + 2 >= Len(b) THEN DErr(Len(b))
        ELSE IF b[p + 3] # "}" THEN DErr(p + 3)
        ELSE [kind |-> "rm", key |-> b[p + 2], value |-> NoVal, end |-> p + 3, used |-> p + 3]
    ELSE IF b[p + 1] = "S" THEN
        IF p + 1 >= Len(b) THEN DErr(Len(b))
        ELSE IF b[p + 2] \notin Keys THEN DErr(p + 2)
        ELSE LET e == ValEnd(b, p + 2) IN
             IF e >= Len(b) THEN DErr(Len(b))
             ELSE IF b[e + 1] # "}" THEN DErr(e + 1)
             ELSE [kind |-> "set", key |-> b[p + 2], value |-> Sub(b, p + 2, e),
                   end |-> e + 1, used |-> e + 1]
    ELSE DErr(p + 1)

(***************************************************************************)
(* index: a HashMap from key to CommandPointer                             *)
(***************************************************************************)
EmptyIndex == [k \in {} |-> 0]

IndexInsert(idx, key, ptr) ==
    [k \in (DOMAIN idx) \cup {key} |-> IF k = key THEN ptr ELSE idx[k]]

IndexRemove(idx, key) == [k \in (DOMAIN idx) \ {key} |-> idx[k]]

(***************************************************************************)
(* utils.rs: replay                                                        *)
(***************************************************************************)
RECURSIVE ReplayFrom(_, _, _, _, _)
ReplayFrom(b, start, idx, stale, gen) ==
    LET d == DecodeAt(b, start) IN
    IF d.kind = "eof" THEN [ok |-> TRUE, index |-> idx, stale |-> stale]
    ELSE IF d.kind = "err" THEN [ok |-> FALSE, index |-> idx, stale |-> stale]
    ELSE IF d.kind = "set" THEN
        ReplayFrom(b, d.end, IndexInsert(idx, d.key, CommandPointer(gen, start, d.end)),
                   stale + (IF d.key \in DOMAIN idx THEN idx[d.key].len ELSE 0), gen)
    ELSE
        ReplayFrom(b, d.end, IndexRemove(idx, d.key),
                   stale + (IF d.key \in DOMAIN idx THEN idx[d.key].len ELSE 0)
                         + (d.end - start), gen)

\* replay that stops at a record it cannot decode and keeps the prefix
replayPrefix(b, idx, gen) == [ReplayFrom(b, 0, idx, 0, gen) EXCEPT !.ok = TRUE]

replay(b, idx, gen) == ReplayFrom(b, 0, idx, 0, gen)

\* get_generation_list: the generations that have a <gen>.log, ascending
get_generation_list(dir) == SortedSeq(DOMAIN dir)

\* get_logfile / new_logfile: open read+write, create if missing, no truncation
get_logfile(dir, gen) ==
    IF gen \in DOMAIN dir THEN dir
    ELSE [g \in (DOMAIN dir) \cup {gen} |-> IF g = gen THEN <<>> ELSE dir[g]]

remove_file(dir, gen) == [g \in (DOMAIN dir) \ {gen} |-> dir[g]]

(***************************************************************************)
(* kvs.rs: the store as a record s with the fields of the variables        *)
(***************************************************************************)
\* the content of the file the writer (and the reader of curr_gen) has open
WFile(s) == IF s.wfile = 0 THEN s.anon ELSE s.path[s.wfile]

\* the content of the file behind the reader of generation g
FileOf(s, g) == IF g = s.curr_gen THEN WFile(s) ELSE s.path[g]

PutW(s, c) ==
    IF s.wfile = 0 THEN [s EXCEPT !.anon = c] ELSE [s EXCEPT !.path[s.wfile] = c]

\* BufWriter::flush / flush_buf: the buffer goes to the file at the shared offset
flush(s) ==
    [PutW(s, WriteAt(WFile(s), s.pos, s.wbuf))
        EXCEPT !.pos = s.pos + Len(s.wbuf), !.wbuf = <<>>]

\* serde_json::to_writer on the BufWriter: the pieces are appended to the
\* buffer, which is written out whenever it is full and another piece comes
to_writer(s, data) ==
    LET total == s.wbuf \o data
        n == IF Len(total) <= BufCap THEN 0
             ELSE BufCap * ((Len(total) - 1) \div BufCap)
    IN  [PutW(s, WriteAt(WFile(s), s.pos, SubSeq(total, 1, n)))
            EXCEPT !.pos = s.pos + n, !.wbuf = SubSeq(total, n + 1, Len(total))]

\* where a buffered read of `used` bytes from offset start leaves the offset
\* of the file: the BufReader fills its buffer BufCap bytes at a time
ReadAhead(flen, start, used) ==
    IF start >= flen THEN start
    ELSE Min(flen, start + BufCap * CeilDiv(IF used = 0 THEN 1 ELSE used, BufCap))

\* KvStore::get without its effect on the file offset
GetVal(s, key) ==
    IF key \notin DOMAIN s.index THEN [st |-> "none", v |-> NoVal, used |-> 0]
    ELSE LET p == s.index[key] IN
         IF p.gen \notin s.readers THEN [st |-> "MissingLogfile", v |-> NoVal, used |-> 0]
         ELSE LET f == FileOf(s, p.gen)
                  chunk == Sub(f, Min(p.start, Len(f)), Min(p.start + p.len, Len(f)))
                  d == DecodeAt(chunk, 0)
              IN  IF d.kind \in {"eof", "err"}
                    THEN [st |-> "Serde", v |-> NoVal, used |-> d.used]
                  ELSE IF d.end < Len(chunk)
                    THEN [st |-> "Serde", v |-> NoVal, used |-> d.end + 1]
                  ELSE IF d.kind = "rm"
                    THEN [st |-> "UnexpectedCommand", v |-> NoVal, used |-> d.used]
                  ELSE [st |-> "some", v |-> d.value, used |-> d.used]

\* KvStore::get: the result and the store after it
get(s, key) ==
    LET r == GetVal(s, key) IN
    IF key \in DOMAIN s.index /\ s.index[key].gen \in s.readers
         /\ s.index[key].gen = s.curr_gen
      THEN [r |-> r, s |-> [s EXCEPT !.pos = ReadAhead(Len(WFile(s)), s.index[key].start, r.used)]]
      ELSE [r |-> r, s |-> s]

RECURSIVE CopyLoop(_, _, _, _, _)
\* the loop over index.values_mut() in clean_stale_data, in the order `order`;
\* acc: the index so far, the bytes given to clean_writer, the shared offset
CopyLoop(s, clean_gen, order, i, acc) ==
    IF i > Len(order) THEN [ok |-> TRUE, index |-> acc.index, out |-> acc.out, pos |-> acc.pos]
    ELSE LET key == order[i]
             p == s.index[key]
         IN  IF p.gen \notin s.readers
               THEN [ok |-> FALSE, index |-> acc.index, out |-> acc.out, pos |-> acc.pos]
             ELSE LET f == FileOf(s, p.gen)
                      bytes == Sub(f, Min(p.start, Len(f)), Min(p.start + p.len, Len(f)))
                      clean_start == Len(acc.out)
                  IN  CopyLoop(s, clean_gen, order, i + 1,
                        [index |-> [acc.index EXCEPT ![key] =
                                      CommandPointer(clean_gen, clean_start,
                                                     clean_start + Len(bytes))],
                         out |-> acc.out \o bytes,
                         pos |-> IF p.gen = s.curr_gen
                                   THEN ReadAhead(Len(f), p.start, Len(bytes))
                                   ELSE acc.pos])

RECURSIVE DeleteLoop(_, _, _)
\* stale_readers.into_keys().try_for_each(remove_file), in the order `del`:
\* stops at the first file that is not there
DeleteLoop(s, del, i) ==
    IF i > Len(del) THEN [ok |-> TRUE, s |-> s]
    ELSE LET g == del[i] IN
         IF g \notin DOMAIN s.path THEN [ok |-> FALSE, s |-> s]
         ELSE DeleteLoop(
                [s EXCEPT !.path = remove_file(s.path, g),
                          !.anon = IF s.wfile = g THEN s.path[g] ELSE s.anon,
                          !.wfile = IF s.wfile = g THEN 0 ELSE s.wfile],
                del, i + 1)

\* clean_stale_data up to and including the swap of the readers, before any
\* old file is deleted
CleanSwap(s, order) ==
    LET s1 == flush(s)
        clean_gen == s1.curr_gen + 1
        dir1 == get_logfile(s1.path, clean_gen)
        cp == CopyLoop(s1, clean_gen, order, 1,
                       [index |-> s1.index, out |-> <<>>, pos |-> s1.pos])
        dir2 == [dir1 EXCEPT ![clean_gen] = WriteAt(dir1[clean_gen], 0, cp.out)]
    IN  IF ~cp.ok
          THEN [ok |-> FALSE,
                s |-> [s1 EXCEPT !.path = dir2, !.index = cp.index, !.pos = cp.pos]]
        ELSE IF Len(dir2[clean_gen]) > SIZE_THRESHOLD
          THEN [ok |-> TRUE,
                s |-> [s1 EXCEPT !.path = get_logfile(dir2, s1.curr_gen),
                                 !.index = cp.index,
                                 !.readers = {clean_gen, s1.curr_gen + 2},
                                 !.curr_gen = s1.curr_gen + 2,
                                 !.wfile = s1.curr_gen,
                                 !.anon = <<>>,
                                 !.wbuf = <<>>,
                                 !.pos = 0]]
        ELSE [ok |-> TRUE,
              s |-> [s1 EXCEPT !.path = dir2,
                               !.index = cp.index,
                               !.readers = {clean_gen},
                               !.curr_gen = clean_gen,
                               !.wfile = clean_gen,
                               !.anon = <<>>,
                               !.wbuf = <<>>,
                               !.pos = Len(cp.out)]]

\* clean_stale_data without the reset of stale_bytes
clean_stale_data_noreset(s, order, del) ==
    LET sw == CleanSwap(s, order) IN
    IF ~sw.ok THEN [st |-> "MissingLogfile", s |-> sw.s]
    ELSE LET dl == DeleteLoop(sw.s, del, 1) IN
         IF ~dl.ok THEN [st |-> "Io", s |-> dl.s]
         ELSE [st |-> "ok", s |-> dl.s]

\* KvStore::clean_stale_data; order: the iteration order of the index, del: the
\* iteration order of the stale readers
clean_stale_data(s, order, del) ==
    LET sw == CleanSwap(s, order) IN
    IF ~sw.ok THEN [st |-> "MissingLogfile", s |-> sw.s]
    ELSE LET dl == DeleteLoop(sw.s, del, 1) IN
         IF ~dl.ok THEN [st |-> "Io", s |-> dl.s]
         ELSE [st |-> "ok", s |-> [dl.s EXCEPT !.stale_bytes = 0]]

\* clean_stale_data when the seek, read or copy of the n-th index entry fails
\* with an I/O error: `?` returns out of the loop, the entries before it are
\* already repointed in place, clean_writer is dropped and writes its buffer
CopyFail(s, order, n) ==
    LET s1 == flush(s)
        clean_gen == s1.curr_gen + 1
        dir1 == get_logfile(s1.path, clean_gen)
        cp == CopyLoop(s1, clean_gen, SubSeq(order, 1, n - 1), 1,
                       [index |-> s1.index, out |-> <<>>, pos |-> s1.pos])
    IN  [s1 EXCEPT !.path = [dir1 EXCEPT ![clean_gen] = WriteAt(dir1[clean_gen], 0, cp.out)],
                   !.index = cp.index,
                   !.pos = cp.pos]

\* KvStore::set up to the threshold test
SetWrite(s, key, value) ==
    LET s1 == flush(s)
        start == s1.pos
        s2 == flush(to_writer(s1, Encode([op |-> "set", key |-> key, value |-> value])))
        end == s2.pos
    IN  [s2 EXCEPT !.index = IndexInsert(s2.index, key, CommandPointer(s2.curr_gen, start, end)),
                   !.stale_bytes = @ + (IF key \in DOMAIN s2.index THEN s2.index[key].len ELSE 0)]

\* KvStore::remove up to the threshold test
RemoveWrite(s, key) ==
    LET s1 == to_writer(s, Encode([op |-> "rm", key |-> key, value |-> NoVal])) IN
    IF key \in DOMAIN s1.index
      THEN [s1 EXCEPT !.index = IndexRemove(s1.index, key),
                      !.stale_bytes = @ + s1.index[key].len]
      ELSE s1

RECURSIVE ReplayAll(_, _, _, _)
\* the loop of open over prev_gens
ReplayAll(dir, gens, i, acc) ==
    IF i > Len(gens) THEN acc
    ELSE LET r == replay(dir[gens[i]], acc.index, gens[i]) IN
         IF ~r.ok THEN [ok |-> FALSE, index |-> r.index, stale |-> acc.stale]
         ELSE ReplayAll(dir, gens, i + 1,
                        [ok |-> TRUE, index |-> r.index, stale |-> acc.stale + r.stale])

\* OpenGen with the threshold test made strict
OpenGenStrict(dir) ==
    IF DOMAIN dir = {} THEN 1
    ELSE LET last_gen == MaxOf(DOMAIN dir) IN
         IF Len(dir[last_gen]) < SIZE_THRESHOLD THEN last_gen ELSE last_gen + 1

\* the generation open makes the active one
OpenGen(dir) ==
    IF DOMAIN dir = {} THEN 1
    ELSE LET last_gen == MaxOf(DOMAIN dir) IN
         IF Len(dir[last_gen]) <= SIZE_THRESHOLD THEN last_gen ELSE last_gen + 1

\* KvStore::open on the directory dir
open(dir) ==
    LET prev_gens == get_generation_list(dir)
        gen == OpenGen(dir)
        rp == ReplayAll(dir, prev_gens, 1, [ok |-> TRUE, index |-> EmptyIndex, stale |-> 0])
    IN  [ok |-> rp.ok,
         s |-> [path |-> IF rp.ok THEN get_logfile(dir, gen) ELSE dir,
                index |-> rp.index,
                readers |-> (DOMAIN dir) \cup {gen},
                curr_gen |-> gen,
                stale_bytes |-> rp.stale,
                wfile |-> gen,
                anon |-> <<>>,
                wbuf |-> <<>>,
                pos |-> 0]]

(***************************************************************************)
(* Crash points inside clean_stale_data                                    *)
(***************************************************************************)
RECURSIVE Chunks(_)
\* io::copy hands a record to clean_writer in pieces of at most BufCap bytes
Chunks(n) == IF n <= BufCap THEN <<n>> ELSE <<BufCap>> \o Chunks(n - BufCap)

RECURSIVE ChunkSeq(_, _, _)
ChunkSeq(idx, order, i) ==
    IF i > Len(order) THEN <<>>
    ELSE Chunks(idx[order[i]].len) \o ChunkSeq(idx, order, i + 1)

RECURSIVE Flushed(_, _, _, _)
\* BufWriter::write of the pieces cs[i..]: f bytes are in the file and c in the
\* buffer.  A piece that does not fit has the buffer written out first, and a
\* piece of BufCap bytes or more goes to the file directly.  The result: the
\* numbers of bytes in the file after each write to it.
Flushed(cs, i, f, c) ==
    IF i > Len(cs) THEN {}
    ELSE LET n == cs[i]
             f1 == IF c + n > BufCap THEN f + c ELSE f
             c1 == IF c + n > BufCap THEN 0 ELSE c
             f2 == IF n >= BufCap THEN f1 + n ELSE f1
             c2 == IF n >= BufCap THEN c1 ELSE c1 + n
         IN  {[n |-> f1, last |-> FALSE], [n |-> f2, last |-> i = Len(cs)]}
                \cup Flushed(cs, i + 1, f2, c2)

RECURSIVE DeletePoints(_, _, _)
\* the directories after the first 1, 2, ... deletions, the last one left out
DeletePoints(dir, del, i) ==
    IF i >= Len(del) \/ del[i] \notin DOMAIN dir THEN {}
    ELSE {remove_file(dir, del[i])} \cup DeletePoints(remove_file(dir, del[i]), del, i + 1)

\* what a crash inside clean_stale_data(s, order, del) can leave in the
\* directory, with the place of the crash; a copy loop that returns an error
\* gets no further than the bytes it copied
CrashPoints(s, order, del) ==
    LET s1 == flush(s)
        clean_gen == s1.curr_gen + 1
        dir1 == get_logfile(s1.path, clean_gen)
        sw == CleanSwap(s, order)
        out == sw.s.path[clean_gen]
        fl == Flushed(ChunkSeq(s1.index, order, 1), 1, 0, 0)
    IN  {[at |-> "copy", dir |-> dir1]}
        \cup {[at |-> IF x.last /\ sw.ok THEN "copied" ELSE "copy",
               dir |-> [dir1 EXCEPT ![clean_gen] = WriteAt(dir1[clean_gen], 0, SubSeq(out, 1, x.n))]]
              : x \in {y \in fl : y.n <= Len(out)}}
        \cup (IF sw.ok
                THEN {[at |-> "flushed", dir |-> sw.s.path]}
                     \cup {[at |-> "delete", dir |-> d] : d \in DeletePoints(sw.s.path, del, 1)}
                ELSE {})

(***************************************************************************)
(* The state machine                                                       *)
(***************************************************************************)
Cur == [path |-> path, index |-> index, readers |-> readers, curr_gen |-> curr_gen,
        stale_bytes |-> stale_bytes, wfile |-> wfile, anon |-> anon, wbuf |-> wbuf,
        pos |-> pos]

Install(s) ==
    /\ path' = s.path
    /\ index' = s.index
    /\ readers' = s.readers
    /\ curr_gen' = s.curr_gen
    /\ stale_bytes' = s.stale_bytes
    /\ wfile' = s.wfile
    /\ anon' = s.anon
    /\ wbuf' = s.wbuf
    /\ pos' = s.pos

\* the fields of a store that is not there
NoStore(dir) == [path |-> dir, index |-> EmptyIndex, readers |-> {}, curr_gen |-> 0,
                 stale_bytes |-> 0, wfile |-> 0, anon |-> <<>>, wbuf |-> <<>>, pos |-> 0]

None == [st |-> "none", v |-> NoVal]

Some(v) == [st |-> "some", v |-> v]

NoShadow == [k \in Keys |-> None]

\* what get returns for every key in the store s
Gets(s) == [k \in Keys |-> [st |-> GetVal(s, k).st, v |-> GetVal(s, k).v]]

Res(op, key, value, st) ==
    [op |-> op, key |-> key, value |-> value, st |-> st, start |-> 0, eof |-> 0,
     gens |-> {}, lastLen |-> 0, stale |-> 0, first |-> FALSE]

NoRes == Res("none", "", NoVal, "ok")

NoHist == [how |-> "none", snap |-> NoShadow, prev |-> NoRes, pure |-> FALSE]

Init ==
    /\ phase = "closed"
    /\ path = [g \in {} |-> <<>>]
    /\ index = EmptyIndex
    /\ readers = {}
    /\ curr_gen = 0
    /\ stale_bytes = 0
    /\ wfile = 0
    /\ anon = <<>>
    /\ wbuf = <<>>
    /\ pos = 0
    /\ res = NoRes
    /\ shadow = NoShadow
    /\ sess = [pure |-> FALSE, io |-> FALSE]
    /\ hist = NoHist
    /\ ops = 0

\* the session's flags after a call: pure while only set and remove were
\* called on a store opened on an empty directory, io once a call failed
Sess(isWrite, st) ==
    [pure |-> sess.pure /\ isWrite /\ st \notin {"Io", "MissingLogfile"},
     io |-> sess.io \/ st \in {"Io", "MissingLogfile"}]

Step == /\ ops < MaxOps
        /\ ops' = ops + 1

InSession == /\ phase = "open"
             /\ phase' = phase
             /\ hist' = NoHist

Open ==
    /\ Step
    /\ phase = "closed"
    /\ ~(res.op = "open" /\ res.st # "ok")
    /\ LET o == open(path) IN
       /\ res' = [Res("open", "", NoVal, IF o.ok THEN "ok" ELSE "Serde")
                    EXCEPT !.gens = DOMAIN path,
                           !.lastLen = IF DOMAIN path = {} THEN 0
                                       ELSE Len(path[MaxOf(DOMAIN path)])]
       /\ IF o.ok
            THEN /\ phase' = "open"
                 /\ Install(o.s)
                 /\ shadow' = Gets(o.s)
                 /\ sess' = [pure |-> DOMAIN path = {}, io |-> FALSE]
            ELSE /\ phase' = "closed"
                 /\ Install(NoStore(path))
                 /\ UNCHANGED <<shadow, sess>>
    /\ UNCHANGED hist

Set(key, value) ==
    /\ Step
    /\ InSession
    /\ LET w == SetWrite(Cur, key, value)
           r0 == [Res("set", key, value, "ok")
                    EXCEPT !.start = w.index[key].start,
                           !.eof = Len(WFile(flush(Cur))),
                           !.first = (res.op = "open"),
                           !.stale = w.stale_bytes]
       IN  IF w.stale_bytes > SIZE_THRESHOLD
             THEN \E order \in Perms(DOMAIN w.index), del \in Perms(w.readers) :
                    LET c == clean_stale_data(w, order, del) IN
                    /\ Install(c.s)
                    /\ res' = [r0 EXCEPT !.st = c.st]
                    /\ sess' = Sess(TRUE, c.st)
             ELSE /\ Install(w)
                  /\ res' = r0
                  /\ sess' = Sess(TRUE, "ok")
    /\ shadow' = [shadow EXCEPT ![key] = Some(value)]

Get(key) ==
    /\ Step
    /\ InSession
    /\ LET g == get(Cur, key) IN
       /\ Install(g.s)
       /\ res' = Res("get", key, g.r.v, g.r.st)
       /\ sess' = Sess(FALSE, g.r.st)
    /\ UNCHANGED shadow

Remove(key) ==
    /\ Step
    /\ InSession
    /\ LET w == RemoveWrite(Cur, key)
           found == key \in DOMAIN index
           r0 == [Res("rm", key, NoVal, IF found THEN "true" ELSE "false")
                    EXCEPT !.start = pos + Len(wbuf),
                           !.eof = Len(WFile(flush(Cur))),
                           !.first = (res.op = "open"),
                           !.stale = w.stale_bytes]
       IN  IF found /\ w.stale_bytes > SIZE_THRESHOLD
             THEN \E order \in Perms(DOMAIN w.index), del \in Perms(w.readers) :
                    LET c == clean_stale_data(w, order, del) IN
                    /\ Install(c.s)
                    /\ res' = [r0 EXCEPT !.st = IF c.st = "ok" THEN "true" ELSE c.st]
                    /\ sess' = Sess(TRUE, c.st)
             ELSE /\ Install(w)
                  /\ res' = r0
                  /\ sess' = Sess(TRUE, "ok")
    /\ shadow' = [shadow EXCEPT ![key] = None]

Clean ==
    /\ Step
    /\ InSession
    /\ \E order \in Perms(DOMAIN index), del \in Perms(readers) :
         LET c == clean_stale_data(Cur, order, del) IN
         /\ Install(c.s)
         /\ res' = [Res("clean", "", NoVal, c.st) EXCEPT !.stale = stale_bytes]
         /\ sess' = Sess(FALSE, c.st)
    /\ UNCHANGED shadow

Flush ==
    /\ Step
    /\ InSession
    /\ wbuf # <<>>
    /\ Install(flush(Cur))
    /\ res' = Res("flush", "", NoVal, "ok")
    /\ sess' = Sess(FALSE, "ok")
    /\ UNCHANGED shadow

\* the shutdown that ends a session: what is remembered of it; s: the store
\* whose get results are remembered
Shutdown(how, dir, s) ==
    /\ phase = "open"
    /\ phase' = "closed"
    /\ Install(NoStore(dir))
    /\ hist' = [how |-> how, snap |-> Gets(s), prev |-> res, pure |-> sess.pure]
    /\ res' = Res(how, "", NoVal, "ok")
    /\ shadow' = NoShadow
    /\ sess' = [pure |-> FALSE, io |-> FALSE]

\* the store is dropped: the BufWriter writes its buffer out
Close ==
    /\ Step
    /\ Shutdown("close", flush(Cur).path, Cur)

\* the process dies between two calls: what the BufWriter holds is lost
Crash ==
    /\ Step
    /\ Shutdown("crash", path, Cur)

\* the process dies inside clean_stale_data
CrashInClean ==
    /\ Step
    /\ \E order \in Perms(DOMAIN index), del \in Perms(readers) :
         \E c \in CrashPoints(Cur, order, del) :
            Shutdown(c.at, c.dir, Cur)

Next ==
    \/ Open
    \/ \E key \in Keys, value \in Values : Set(key, value)
    \/ \E key \in Keys : Get(key)
    \/ \E key \in Keys : Remove(key)
    \/ Clean
    \/ Flush
    \/ Close
    \/ Crash
    \/ CrashInClean

Spec == Init /\ [][Next]_vars

\* the stores on which a set or a remove enters clean_stale_data: the write
\* took stale_bytes over SIZE_THRESHOLD
TriggeredCleans ==
    {w \in {SetWrite(Cur, key, value) : key \in Keys, value \in Values} :
        w.stale_bytes > SIZE_THRESHOLD}
    \cup {w \in {RemoveWrite(Cur, key) : key \in DOMAIN index} :
            w.stale_bytes > SIZE_THRESHOLD}

\* the process dies inside the clean_stale_data that a set or a remove called
CrashInTriggeredClean ==
    /\ Step
    /\ phase = "open"
    /\ \E s \in TriggeredCleans :
         \E order \in Perms(DOMAIN s.index), del \in Perms(s.readers) :
            \E c \in CrashPoints(s, order, del) :
               Shutdown(c.at, c.dir, s)

NextCrash ==
    \/ Next
    \/ CrashInTriggeredClean

\* the program with crashes inside the compactions of set and remove as well
SpecCrash == Init /\ [][NextCrash]_vars

\* clean_stale_data is called and the file system fails one read of its copy
\* loop
CleanIoError ==
    /\ Step
    /\ InSession
    /\ \E order \in Perms(DOMAIN index) :
         \E n \in 1..Len(order) :
            /\ Install(CopyFail(Cur, order, n))
            /\ res' = [Res("clean", "", NoVal, "Io") EXCEPT !.stale = stale_bytes]
            /\ sess' = Sess(FALSE, "Io")
    /\ UNCHANGED shadow

NextIo ==
    \/ Next
    \/ CleanIoError

\* the program on a file system whose reads may fail
SpecIo == Init /\ [][NextIo]_vars

(***************************************************************************)
(* Claims                                                                  *)
(***************************************************************************)
\* the store has just been reopened after a shutdown of the kind `how`
Reopened(how) == res.op = "open" /\ hist.how \in how

\* C1: a fresh store that saw only set and remove, then was dropped and
\* reopened, gives for every key the get result it gave before the drop.
C1_RoundTrip ==
    (Reopened({"close"}) /\ hist.pure) => (res.st = "ok" /\ Gets(Cur) = hist.snap)

\* C2: within a session without I/O failure the store answers get like a plain
\* map: the value of the latest set of the key, nothing after a remove.
C2_PlainMap ==
    (phase = "open" /\ ~sess.io) => Gets(Cur) = shadow

\* C3: a set or remove puts its record at the end of the active segment file,
\* so no byte written earlier changes.  Stated for the case the claim singles
\* out: the first set or remove after open starts at the length of the file
\* open made active, also when that file is a generation of an earlier session.
C3_AppendOnly ==
    (res.op \in {"set", "rm"} /\ res.first) => res.start = res.eof

\* C4: after remove(k) returned true, a crash and a reopen leave get(k) = None.
C4_TombstoneDurable ==
    (Reopened({"crash"}) /\ res.st = "ok" /\ hist.prev.op = "rm" /\ hist.prev.st = "true")
        => Gets(Cur)[hist.prev.key] = None

\* C5: after set(k, v) returned Ok, a crash and a reopen give get(k) = Some(v).
C5_SetDurable ==
    (Reopened({"crash"}) /\ hist.prev.op = "set" /\ hist.prev.st = "ok")
        => (res.st = "ok" /\ Gets(Cur)[hist.prev.key] = Some(hist.prev.value))

\* C6: a crash of clean_stale_data after its copy loop and before its first
\* deletion leaves a directory that opens and gives every key the get result
\* it had before the compaction.
C6_CompactionCrashSafe ==
    Reopened({"copied", "flushed"}) => (res.st = "ok" /\ Gets(Cur) = hist.snap)

\* C7: after a crash anywhere inside clean_stale_data the store opens and every
\* key that had a value still has that value.
C7_NoLossInCleanup ==
    Reopened({"copy", "copied", "flushed", "delete"})
        => /\ res.st = "ok"
           /\ \A k \in Keys : hist.snap[k].st = "some" => Gets(Cur)[k] = hist.snap[k]

\* C8: every pointer of the index names a generation that has a reader and
\* whose file is in the directory.
C8_GenerationsLive ==
    phase = "open" =>
        \A k \in DOMAIN index : index[k].gen \in readers /\ index[k].gen \in DOMAIN path

\* C9: a remove of a key that is not in the index returns false and leaves the
\* index, the stale bytes, the active generation and every get result as they
\* were; a get of such a key returns None.
C9_AbsentKey ==
    [][ /\ (res'.op = "rm" /\ ops' # ops /\ res'.key \notin DOMAIN index)
            => /\ res'.st = "false"
               /\ index' = index
               /\ stale_bytes' = stale_bytes
               /\ curr_gen' = curr_gen
               /\ Gets(Cur)' = Gets(Cur)
        /\ (res'.op = "get" /\ ops' # ops /\ res'.key \notin DOMAIN index)
            => res'.st = "none" ]_vars

\* C10: open makes generation 1 active in an empty directory, and otherwise
\* the highest generation g if its file is at most SIZE_THRESHOLD bytes long
\* and g + 1 if it is longer; it leaves a reader for every generation that
\* was there and for the active one.
C10_OpenGeneration ==
    (res.op = "open" /\ res.st = "ok") =>
        /\ curr_gen = (IF res.gens = {} THEN 1
                       ELSE IF res.lastLen <= SIZE_THRESHOLD THEN MaxOf(res.gens)
                       ELSE MaxOf(res.gens) + 1)
        /\ readers = res.gens \cup {curr_gen}
        /\ curr_gen \in DOMAIN path

\* C10 witness: a reopen that found an oversized last segment
C10_Witness ==
    /\ res.op = "open" /\ res.st = "ok"
    /\ res.gens # {}
    /\ res.lastLen > SIZE_THRESHOLD
    /\ curr_gen = MaxOf(res.gens) + 1

RECURSIVE SumOver(_, _, _)
SumOver(f, S, byLen) ==
    IF S = {} THEN 0
    ELSE LET x == CHOOSE y \in S : TRUE IN
         (IF byLen THEN f[x].len ELSE Len(f[x])) + SumOver(f, S \ {x}, byLen)

\* the bytes in the generation files of the directory dir
DiskBytes(dir) == SumOver(dir, DOMAIN dir, FALSE)

\* the bytes of one copy of every record the index idx points at
LiveBytes(idx) == SumOver(idx, DOMAIN idx, TRUE)

\* a step in which clean_stale_data ran to its swap: only it raises curr_gen
CompactionStep == phase = "open" /\ phase' = "open" /\ curr_gen' > curr_gen

\* the step is a call of clean_stale_data that returned Ok
CleanOk == res'.op = "clean" /\ ops' # ops /\ res'.st = "ok"

\* C11: clean_stale_data leaves the get result of every key as it was, and
\* when there were no stale bytes the generation files afterwards hold no more
\* bytes than one copy of every indexed record.
C11_CompactionPreserves ==
    [][CleanOk => /\ Gets(Cur)' = Gets(Cur)
                  /\ (stale_bytes = 0 => DiskBytes(path') <= LiveBytes(index'))]_vars

\* C12: when the compaction target is larger than SIZE_THRESHOLD, curr_gen
\* grows by 2 and the writer and the reader of curr_gen are on <curr_gen>.log,
\* which is in the directory; otherwise curr_gen grows by 1 and the writer is
\* on the compaction target.
C12_RollOver ==
    [][CompactionStep =>
         /\ curr_gen' \in {curr_gen + 1, curr_gen + 2}
         /\ curr_gen' \in readers'
         /\ (res'.st \notin {"Io", "MissingLogfile"}
               => wfile' = curr_gen' /\ curr_gen' \in DOMAIN path')]_vars

\* the step is a call of clean_stale_data that returned an error out of its
\* copy loop: the swap, which raises curr_gen, was not reached
CopyLoopError ==
    /\ res'.op = "clean" /\ ops' # ops
    /\ res'.st \in {"Io", "MissingLogfile"}
    /\ curr_gen' = curr_gen

\* C13: when clean_stale_data fails in its copy loop the index, the readers,
\* the writer's file, curr_gen and stale_bytes are as before the call, no
\* generation file is gone, and get returns for every key what it returned
\* before.
C13_FailedCompaction ==
    [][CopyLoopError =>
         /\ index' = index
         /\ readers' = readers
         /\ wfile' = wfile
         /\ stale_bytes' = stale_bytes
         /\ DOMAIN path \subseteq DOMAIN path'
         /\ Gets(Cur)' = Gets(Cur)]_vars

\* the pointer of key k in the store s designates, in the file of a registered
\* reader, exactly one complete Set record of the key k
PointsAtSet(s, k) ==
    LET p == s.index[k] IN
    /\ p.gen \in s.readers
    /\ p.gen = s.curr_gen \/ p.gen \in DOMAIN s.path
    /\ LET f == FileOf(s, p.gen)
           d == DecodeAt(f, p.start)
       IN  /\ p.start + p.len <= Len(f)
           /\ d.kind = "set"
           /\ d.key = k
           /\ d.end = p.start + p.len

\* the byte ranges of the pointers p and q do not overlap
Disjoint(p, q) ==
    p.gen = q.gen => (p.start + p.len <= q.start \/ q.start + q.len <= p.start)

\* C14: while no call has failed with an I/O error, every index entry
\* designates exactly one complete Set record of its key in its generation's
\* file, get fails for no key with UnexpectedCommand or a decode error, and
\* the ranges of two entries in one generation do not overlap.
C14_PointerValid ==
    (phase = "open" /\ ~sess.io) =>
        /\ \A k \in DOMAIN index :
              /\ PointsAtSet(Cur, k)
              /\ GetVal(Cur, k).st \notin {"UnexpectedCommand", "Serde"}
        /\ \A k1, k2 \in DOMAIN index : k1 # k2 => Disjoint(index[k1], index[k2])

\* C15: a get leaves the offset at which the writer puts its next record
\* where it was, and the start offset a set records is the length of the
\* active file just before the record is appended.
C15_GetReadOnly ==
    [][/\ (res'.op = "get" /\ ops' # ops) => pos' + Len(wbuf') = pos + Len(wbuf)
       /\ (res'.op = "set" /\ ops' # ops /\ res.op = "get") => res'.start = res'.eof]_vars

\* the tombstone remove writes for the key k
Tombstone(k) == Encode([op |-> "rm", key |-> k, value |-> NoVal])

\* C17: a remove of an indexed key raises stale_bytes, before any compaction
\* it triggers, by the length of the key's old pointer plus the length of the
\* tombstone, which is what replay adds for that Remove record.
C17_RemoveStale ==
    [][(res'.op = "rm" /\ ops' # ops /\ phase = "open" /\ res'.key \in DOMAIN index) =>
         /\ res'.stale = stale_bytes + index[res'.key].len + Len(Tombstone(res'.key))
         /\ res'.stale = stale_bytes + replay(Tombstone(res'.key), index, curr_gen).stale]_vars

\* C18: after a compaction that returned Ok the readers are the compaction
\* target and, after a roll-over, the new active generation; the generation
\* files in the directory are those of the readers, curr_gen is the largest
\* of them and stale_bytes is 0.
C18_AfterCompaction ==
    [][(CompactionStep /\ res'.st \notin {"Io", "MissingLogfile"}) =>
         /\ readers' \in {{curr_gen + 1}, {curr_gen + 1, curr_gen + 2}}
         /\ DOMAIN path' = readers'
         /\ curr_gen' = MaxOf(readers')
         /\ stale_bytes' = 0]_vars

\* C16: after a crash of clean_stale_data that had deleted some but not all
\* of the old generation files, in whatever order, open succeeds and every
\* key gives the get result it gave before the compaction; a removed key is
\* not back.
C16_NoResurrection ==
    Reopened({"delete"}) => (res.st = "ok" /\ Gets(Cur) = hist.snap)

\* C19: set raises stale_bytes, before any compaction it triggers, by the
\* length of the key's old pointer when the key was indexed and by nothing
\* otherwise; and when a set, or a remove that found its key, returns Ok,
\* stale_bytes is at most SIZE_THRESHOLD.
C19_Watermark ==
    [][/\ (res'.op = "set" /\ ops' # ops) =>
             res'.stale = stale_bytes + (IF res'.key \in DOMAIN index
                                           THEN index[res'.key].len ELSE 0)
       /\ (ops' # ops /\ \/ res'.op = "set" /\ res'.st = "ok"
                         \/ res'.op = "rm" /\ res'.st = "true") =>
             stale_bytes' <= SIZE_THRESHOLD]_vars

\* C19 witness: a set of an indexed key took the counter over SIZE_THRESHOLD,
\* compacted and returned Ok
C19_Witness ==
    /\ phase = "open"
    /\ res.op = "set" /\ res.st = "ok"
    /\ res.stale > SIZE_THRESHOLD
    /\ stale_bytes = 0
    /\ curr_gen > 1

RECURSIVE Records(_, _)
\* the bytes of b from offset p on are a sequence of complete records
Records(b, p) ==
    LET d == DecodeAt(b, p) IN
    IF d.kind = "eof" THEN TRUE
    ELSE IF d.kind = "err" THEN FALSE
    ELSE Records(b, d.end)

\* some generation file of the directory dir has a record that is cut or
\* cannot be decoded
Corrupt(dir) == \E g \in DOMAIN dir : ~Records(dir[g], 0)

\* C20: open on a directory with a generation file that has a cut or
\* undecodable record returns the decode error and no store, and leaves the
\* files as they are.
C20_CorruptFatal ==
    [][(res'.op = "open" /\ ops' # ops /\ Corrupt(path)) =>
         /\ res'.st = "Serde"
         /\ phase' = "closed"
         /\ index' = EmptyIndex /\ readers' = {}
         /\ path' = path]_vars

\* C20 witness: open has failed on a directory with a cut record
C20_Witness ==
    /\ res.op = "open" /\ res.st = "Serde"
    /\ phase = "closed"
    /\ Corrupt(path)

=============================================================================
